---- MODULE Spec2Model ----
(***************************************************************************)
(* RegDoc classifier: the classification orchestrator                      *)
(* (backend/classification.py), the prompt library, the ingestion entry    *)
(* point (backend/ingestion.py), the PII detector                          *)
(* (backend/pii_detection.py) and the batch run of the Streamlit           *)
(* application (app.py).                                                   *)
(*                                                                         *)
(* Conventions.                                                            *)
(*  - A Python str is a sequence of chunks (TLA+ strings); concatenation   *)
(*    is \o and `x in s` is contiguous-subsequence containment.  No chunk  *)
(*    used below is a substring of, or overlaps, another one, so chunk     *)
(*    containment coincides with character containment.                    *)
(*  - A confidence is an integer number of hundredths (0.6 is 60).         *)
(*  - dict.get(k, d): an optional field is a set with at most one element. *)
(***************************************************************************)
EXTENDS Integers, Sequences, FiniteSets, TLC

VARIABLES
    \* ---- classify_document (one call) ----
    pc,             \* position inside classify_document
    doc_info,       \* its argument
    llm_calls,      \* the calls of run_llm_classification made so far, in order
    primary,        \* normalized primary result, once returned
    validator,      \* normalized validator result, once returned (None otherwise)
    locals,         \* its locals system_prompt and user_payload, once built
    result,         \* the returned dict, or the raised error
    \* ---- run_llm_classification (one call) ----
    llm_raw,        \* the dict the client returned
    \* ---- build_system_prompt ----
    bp,
    \* ---- process_file ----
    pf,
    \* ---- Upload & Analyze run block ----
    run,            \* the locals of the block, the executor and its futures
    session_state,  \* st.session_state
    \* ---- persisted reviews and the History & Audit page ----
    history,        \* the records of the history store, in stored order
    audit,          \* what the History & Audit page last rendered
    notice          \* what the Save handler last wrote (st.success / st.error)

vars == <<pc, doc_info, llm_calls, primary, validator, locals, result, llm_raw, bp, pf, run, session_state, history, audit, notice>>

classifyVars == <<pc, doc_info, llm_calls, primary, validator, locals, result>>

----------------------------------------------------------------------------
(* Python helpers *)

\* `needle in hay` for str
Contains(hay, needle) ==
    \E i \in 0..(Len(hay) - Len(needle)) :
        SubSeq(hay, i + 1, i + Len(needle)) = needle

\* dict.get(key, default) on an optional field
Get(field, default) == IF field = {} THEN default ELSE CHOOSE x \in field : TRUE

Min2(a, b) == IF a <= b THEN a ELSE b
Max2(a, b) == IF a >= b THEN a ELSE b

\* None for a dict-valued variable
None == [none |-> TRUE]

----------------------------------------------------------------------------
(* Constants of backend/classification.py *)

PRIMARY_MODEL == "meta-llama/llama-3.1-8b-instruct"
VALIDATOR_MODEL == "meta-llama/llama-3.1-70b-instruct"
VALIDATION_THRESHOLD == 60
DEFAULT_CONFIDENCE == 60
CONF_LOW == 0
CONF_HIGH == 100
DISAGREEMENT_CAP == 70
SSN_MIN_CONFIDENCE == 90

S_Unsafe == <<"Unsafe">>
S_HighlySensitive == <<"Highly", " ", "Sensitive">>
S_AndUnsafe == <<" ", "and", " ", "Unsafe">>
S_HighlySensitiveAndUnsafe == S_HighlySensitive \o S_AndUnsafe
S_Public == <<"Public">>
S_Confidential == <<"Confidential">>
S_NoReasoning == <<"No reasoning provided.">>

----------------------------------------------------------------------------
(* backend/pii_detection.py.  A page text is a sequence of fragments; a     *)
(* fragment is a record [kind, value]: one maximal piece of text that is    *)
(* matched by exactly one of the detectors (kind), or by none ("plain").    *)

BUSINESS_PREFIXES ==
    {"info", "contact", "support", "sales", "help", "team", "hello", "admin",
     "office", "service"}

\* str.lower() on the local-part chunks that occur in the modelled e-mails
LowerChunk(c) ==
    CASE c = "Info" -> "info"
      [] c = "Jane" -> "jane"
      [] OTHER -> c

\* An e-mail value is <<local-part head, "@", domain>>;
\* startswith(prefix) looks at the head chunk (the prefixes are whole chunks).
is_business_email(email) == LowerChunk(email[1]) \in BUSINESS_PREFIXES

FragmentsOfKind(text, kind) == SelectSeq(text, LAMBDA f : f.kind = kind)

Finding(type, value, page_num) ==
    [type |-> type, value |-> value, page |-> page_num, is_business |-> {}]

EmailFinding(value, page_num) ==
    [type |-> "email", value |-> value, page |-> page_num,
     is_business |-> {is_business_email(value)}]

MapSeq(s, F(_)) == [i \in 1..Len(s) |-> F(s[i])]

\* the address loop of find_pii: the outer loop runs its body once (break),
\* the inner re.finditer loop appends every match of the page
AddressFindings(text, page_num) ==
    LET matches == FragmentsOfKind(text, "address")
    IN  IF matches = <<>> THEN <<>>
        ELSE MapSeq(matches, LAMBDA f : Finding("address", f.value, page_num))

PageFindings(page) ==
    LET n == page.page_num
        t == page.text
    IN  MapSeq(FragmentsOfKind(t, "email"), LAMBDA f : EmailFinding(f.value, n))
        \o MapSeq(FragmentsOfKind(t, "phone"), LAMBDA f : Finding("phone", f.value, n))
        \o MapSeq(FragmentsOfKind(t, "ssn"), LAMBDA f : Finding("ssn", f.value, n))
        \o MapSeq(FragmentsOfKind(t, "credit_card"),
                  LAMBDA f : Finding("credit_card", f.value, n))
        \o AddressFindings(t, n)

RECURSIVE find_pii(_)
find_pii(pages) ==
    IF pages = <<>> THEN <<>>
    ELSE PageFindings(Head(pages)) \o find_pii(Tail(pages))

----------------------------------------------------------------------------
(* backend/safety.py is not among the sources: the two heuristics follow    *)
(* their contract (section 4.3 of the specification).                       *)

naive_unsafe_check(pages) ==
    \E i \in 1..Len(pages) : FragmentsOfKind(pages[i].text, "unsafe_kw") # <<>>

RECURSIVE profanity_pages(_)
profanity_pages(pages) ==
    IF pages = <<>> THEN <<>>
    ELSE (IF FragmentsOfKind(Head(pages).text, "profanity") # <<>>
          THEN <<Head(pages).page_num>> ELSE <<>>)
         \o profanity_pages(Tail(pages))

----------------------------------------------------------------------------
(* Prompt library (classification.py 21-73).  The environment of a call is  *)
(* the prompts folder: env.config is the parsed prompt_config.json (absent: *)
(* {}), a function from routing keys to lists of template names, and        *)
(* env.templates is the set of template files that exist.  The content of   *)
(* template f is the one-chunk text <<f>>.                                   *)

BASE_TEMPLATE == "base_classification.txt"

load_prompt_config(env) ==
    IF env.config = {} THEN [k \in {"default"} |-> <<BASE_TEMPLATE>>]
    ELSE CHOOSE c \in env.config : TRUE

\* RoutingKey with the two tests in the other order
RoutingKeySwapped(flags) ==
    IF Get(flags.has_ssn, FALSE) \/ Get(flags.has_pii, FALSE) THEN "sensitive"
    ELSE IF Get(flags.unsafe_keyword_flag, FALSE) THEN "unsafe"
    ELSE "public"

\* the routing key of build_system_prompt (lines 52-57)
RoutingKey(flags) ==
    IF Get(flags.unsafe_keyword_flag, FALSE) THEN "unsafe"
    ELSE IF Get(flags.has_ssn, FALSE) \/ Get(flags.has_pii, FALSE) THEN "sensitive"
    ELSE "public"

\* cfg.get(key, cfg.get("default", ["base_classification.txt"])) (line 59)
TemplateList(cfg, key) ==
    IF key \in DOMAIN cfg THEN cfg[key]
    ELSE IF "default" \in DOMAIN cfg THEN cfg["default"]
    ELSE <<BASE_TEMPLATE>>

\* the loop of lines 61-67: the templates that exist, in list order
LoadedPieces(template_list, env) ==
    SelectSeq(template_list, LAMBDA f : f \in env.templates)

\* "\n\n".join(pieces)
RECURSIVE JoinBlank(_)
JoinBlank(pieces) ==
    IF pieces = <<>> THEN <<>>
    ELSE IF Len(pieces) = 1 THEN <<pieces[1]>>
    ELSE <<pieces[1], "\n\n">> \o JoinBlank(Tail(pieces))

build_system_prompt(flags, env) ==
    LET cfg == load_prompt_config(env)
        key == RoutingKey(flags)
        template_list == TemplateList(cfg, key)
        loaded == LoadedPieces(template_list, env)
    IN  IF loaded # <<>>
        THEN [ok |-> TRUE, key |-> key, template_list |-> template_list,
              pieces |-> loaded, text |-> JoinBlank(loaded)]
        ELSE IF BASE_TEMPLATE \in env.templates
        THEN [ok |-> TRUE, key |-> key, template_list |-> template_list,
              pieces |-> <<BASE_TEMPLATE>>, text |-> <<BASE_TEMPLATE>>]
        ELSE [ok |-> FALSE, key |-> key, template_list |-> template_list,
              pieces |-> <<>>, text |-> <<"FileNotFoundError">>]

----------------------------------------------------------------------------
(* run_llm_classification (classification.py 76-117).  llm_raw is the dict  *)
(* json.loads gave; the fields the code coerces (unsafe, kid_safe,          *)
(* confidence) hold any JSON value, the ones it passes through hold a value *)
(* of their documented type.                                                *)

JBool(b) == [t |-> "bool", b |-> b, n |-> 0]
JNull == [t |-> "null", b |-> FALSE, n |-> 0]
\* a finite number, in hundredths
JNum(n) == [t |-> "num", b |-> FALSE, n |-> n]
\* a string holding a number / a string holding none
JNumStr(n) == [t |-> "numstr", b |-> FALSE, n |-> n]
JText == [t |-> "text", b |-> FALSE, n |-> 0]
\* the literal NaN, which json.loads accepts
JNaN == [t |-> "nan", b |-> FALSE, n |-> 0]
\* an integer literal beyond the range of a double (more than 308 digits)
JHuge == [t |-> "huge", b |-> FALSE, n |-> 0]

\* bool(v)
PyBool(v) ==
    CASE v.t = "bool" -> v.b
      [] v.t = "null" -> FALSE
      [] v.t = "num" -> v.n # 0
      [] OTHER -> TRUE

\* float(v): a float [nan, n], or the exception raised
PyFloat(v) ==
    CASE v.t = "num" -> [exc |-> "", nan |-> FALSE, n |-> v.n]
      [] v.t = "numstr" -> [exc |-> "", nan |-> FALSE, n |-> v.n]
      [] v.t = "bool" -> [exc |-> "", nan |-> FALSE, n |-> IF v.b THEN 100 ELSE 0]
      [] v.t = "nan" -> [exc |-> "", nan |-> TRUE, n |-> 0]
      [] v.t = "text" -> [exc |-> "ValueError", nan |-> FALSE, n |-> 0]
      [] v.t = "null" -> [exc |-> "TypeError", nan |-> FALSE, n |-> 0]
      [] OTHER -> [exc |-> "OverflowError", nan |-> FALSE, n |-> 0]

\* x < y on floats: false when either is NaN
FloatLt(x, y) == ~x.nan /\ ~y.nan /\ x.n < y.n
\* min(a, b) and max(a, b) as Python computes them: the first argument is
\* kept unless the second is strictly smaller (larger)
PyMin(a, b) == IF FloatLt(b, a) THEN b ELSE a
PyMax(a, b) == IF FloatLt(a, b) THEN b ELSE a
Float(n) == [exc |-> "", nan |-> FALSE, n |-> n]

\* line 105
Clamp(f) == PyMax(Float(CONF_LOW), PyMin(Float(CONF_HIGH), f)).n

\* lines 101-105: the confidence, or the exception that escapes
NormalizeConfidence(raw) ==
    LET f == PyFloat(Get(raw.confidence, JNum(DEFAULT_CONFIDENCE)))
    IN  IF f.exc \in {"TypeError", "ValueError"}
        THEN [exc |-> "", n |-> Clamp(Float(DEFAULT_CONFIDENCE))]
        ELSE IF f.exc # "" THEN [exc |-> f.exc, n |-> 0]
        ELSE [exc |-> "", n |-> Clamp(f)]

\* raw.get("citations", []) or []
NormalizeCitations(raw) ==
    LET c == Get(raw.citations, [null |-> FALSE, items |-> <<>>])
    IN  IF c.null THEN <<>> ELSE c.items

\* the dict returned at lines 110-117 (exc = "": returned)
run_llm_classification(raw) ==
    LET unsafe == PyBool(Get(raw.unsafe, JBool(FALSE)))
        kid_safe == PyBool(Get(raw.kid_safe, JBool(~unsafe)))
        conf == NormalizeConfidence(raw)
    IN  [exc |-> conf.exc,
         category |-> Get(raw.category, S_Public),
         unsafe |-> unsafe,
         kid_safe |-> kid_safe,
         confidence |-> conf.n,
         reasoning |-> Get(raw.reasoning, S_NoReasoning),
         citations |-> NormalizeCitations(raw)]

----------------------------------------------------------------------------
(* classify_document (classification.py 120-257), as functions of its       *)
(* argument and of the two normalized model results.                        *)

\* lines 133-138
pii_raw(doc) == find_pii(doc.pages)
pii(doc) ==
    SelectSeq(pii_raw(doc),
              LAMBDA f : ~(f.type = "email" /\ Get(f.is_business, FALSE)))

unsafe_flag_heuristic(doc) == naive_unsafe_check(doc.pages)
prof_pages(doc) == profanity_pages(doc.pages)
\* lines 142-143
has_ssn(doc) == \E i \in 1..Len(pii(doc)) : pii(doc)[i].type = "ssn"
has_pii(doc) == pii(doc) # <<>>

\* lines 146-150
context_flags(doc) ==
    [unsafe_keyword_flag |-> {unsafe_flag_heuristic(doc)},
     has_ssn |-> {has_ssn(doc)},
     has_pii |-> {has_pii(doc)}]

\* lines 154-162; every modelled page text is shorter than 800 characters,
\* so no summary is cut
page_summaries(doc) ==
    MapSeq(doc.pages, LAMBDA p : [page |-> p.page_num, text |-> p.text])

\* lines 165-172
user_payload(doc) ==
    [num_pages |-> doc.num_pages,
     num_images |-> doc.num_images,
     pii_findings |-> pii(doc),
     unsafe_keyword_flag |-> unsafe_flag_heuristic(doc),
     profanity_pages |-> prof_pages(doc),
     page_summaries |-> page_summaries(doc)]

\* line 179
NeedsValidatorInclusive(p) == p.confidence <= VALIDATION_THRESHOLD

NeedsValidator(p) == p.confidence < VALIDATION_THRESHOLD

\* lines 191-194
Disagreement(p, v) == v.category # p.category \/ v.unsafe # p.unsafe

\* lines 202-208
CompositeReasoning(p, v) ==
    <<"Validator cross-check: the 70B model disagreed with 8B.\nPrimary said '">>
    \o p.category \o <<"', validator said '">> \o v.category
    \o <<"'.\nValidator chosen for higher precision.\n\nPrimary reasoning: ">>
    \o p.reasoning \o <<"\n\nValidator reasoning: ">> \o v.reasoning

\* lines 183-209: the combined model verdict
CombinedPrimaryOnly(p, v) ==
    [category |-> p.category, unsafe_flag_llm |-> p.unsafe, kid_safe |-> p.kid_safe,
     confidence |-> p.confidence, reasoning |-> p.reasoning,
     citations |-> p.citations]

Combined(p, v) ==
    IF v # None /\ Disagreement(p, v)
    THEN [category |-> v.category,
          unsafe_flag_llm |-> v.unsafe,
          kid_safe |-> v.kid_safe,
          confidence |-> Min2(Min2(p.confidence, v.confidence), DISAGREEMENT_CAP),
          reasoning |-> CompositeReasoning(p, v),
          citations |-> p.citations \o v.citations]
    ELSE [category |-> p.category,
          unsafe_flag_llm |-> p.unsafe,
          kid_safe |-> p.kid_safe,
          confidence |-> p.confidence,
          reasoning |-> p.reasoning,
          citations |-> p.citations]

\* line 212
unsafe_flag(doc, p, v) == Combined(p, v).unsafe_flag_llm \/ unsafe_flag_heuristic(doc)

\* lines 215-219
UnsafeRuleReplace(category, flag) ==
    IF flag /\ ~Contains(category, S_Unsafe) THEN S_Unsafe ELSE category

UnsafeRule(category, flag) ==
    IF flag /\ ~Contains(category, S_Unsafe)
    THEN IF category # <<>> /\ category # S_Unsafe
         THEN category \o S_AndUnsafe
         ELSE S_Unsafe
    ELSE category

\* lines 222-227
SsnRuleDropsUnsafe(cc, ssn) ==
    IF ssn /\ ~Contains(cc.category, S_HighlySensitive)
    THEN [category |-> S_HighlySensitive,
          confidence |-> Max2(cc.confidence, SSN_MIN_CONFIDENCE)]
    ELSE cc

SsnRule(cc, ssn) ==
    IF ssn /\ ~Contains(cc.category, S_HighlySensitive)
    THEN [category |-> IF Contains(cc.category, S_Unsafe)
                       THEN S_HighlySensitiveAndUnsafe
                       ELSE S_HighlySensitive,
          confidence |-> Max2(cc.confidence, SSN_MIN_CONFIDENCE)]
    ELSE cc

\* category and confidence after the unsafe rule, then after the SSN rule
AfterUnsafeRule(doc, p, v) ==
    [category |-> UnsafeRule(Combined(p, v).category, unsafe_flag(doc, p, v)),
     confidence |-> Combined(p, v).confidence]

AfterSsnRule(doc, p, v) == SsnRule(AfterUnsafeRule(doc, p, v), has_ssn(doc))

\* lines 230-240
\* str.upper() on the finding types
UpperType(t) ==
    CASE t = "email" -> "EMAIL"
      [] t = "phone" -> "PHONE"
      [] t = "ssn" -> "SSN"
      [] t = "credit_card" -> "CREDIT_CARD"
      [] OTHER -> "ADDRESS"
PiiCitation(f) ==
    [page |-> f.page, reason |-> <<"Detected ", UpperType(f.type), ": ">> \o f.value]
ProfanityCitation(pnum) ==
    [page |-> pnum,
     reason |-> <<"Strong profanity detected on this page (not kid-safe).">>]

\* line 243
KidSafeIgnoresProfanity(doc, p, v) ==
    Combined(p, v).kid_safe /\ ~unsafe_flag(doc, p, v)

KidSafeFinal(doc, p, v) ==
    Combined(p, v).kid_safe /\ ~unsafe_flag(doc, p, v) /\ prof_pages(doc) = <<>>

\* lines 246-247
BusinessNote ==
    <<"\nNote: Detected only public business contact info - does not increase sensitivity.">>
FinalReasoning(doc, p, v) ==
    IF ~unsafe_flag(doc, p, v)
       /\ \E i \in 1..Len(pii_raw(doc)) : Get(pii_raw(doc)[i].is_business, FALSE)
    THEN Combined(p, v).reasoning \o BusinessNote
    ELSE Combined(p, v).reasoning

\* lines 250-257
ClassificationResult(doc, p, v) ==
    [category |-> AfterSsnRule(doc, p, v).category,
     unsafe |-> unsafe_flag(doc, p, v),
     kid_safe |-> KidSafeFinal(doc, p, v),
     confidence |-> AfterSsnRule(doc, p, v).confidence,
     reasoning |-> FinalReasoning(doc, p, v),
     citations |-> Combined(p, v).citations
                   \o MapSeq(pii(doc), PiiCitation)
                   \o MapSeq(prof_pages(doc), ProfanityCitation)]

----------------------------------------------------------------------------
(* Inputs of one classify_document call *)

F_Plain == [kind |-> "plain", value |-> <<"Quarterly results">>, chars |-> 17]
F_Ssn == [kind |-> "ssn", value |-> <<"123-45-6789">>, chars |-> 11]
F_Email == [kind |-> "email", value |-> <<"Jane", "@", "mail.org">>, chars |-> 13]
F_BizEmail == [kind |-> "email", value |-> <<"Info", "@", "corp.com">>, chars |-> 13]
F_Phone == [kind |-> "phone", value |-> <<"555-123-4567">>, chars |-> 12]
F_Address == [kind |-> "address", value |-> <<"12 Main St">>, chars |-> 10]
F_UnsafeKw == [kind |-> "unsafe_kw", value |-> <<"build a bomb">>, chars |-> 12]
F_Profanity == [kind |-> "profanity", value |-> <<"(expletive)">>, chars |-> 11]

\* _assess_legibility (ingestion.py 34-41)
LEGIBLE_MIN_CHARS == 30
RECURSIVE TextChars(_)
TextChars(text) == IF text = <<>> THEN 0 ELSE Head(text).chars + TextChars(Tail(text))
RECURSIVE TotalChars(_)
TotalChars(texts) ==
    IF texts = <<>> THEN 0 ELSE TextChars(Head(texts)) + TotalChars(Tail(texts))
assess_legibility(texts) == TotalChars(texts) >= LEGIBLE_MIN_CHARS

\* the doc_info of a document with the given page texts and image count
DocInfo(filename, texts, num_images) ==
    [filename |-> filename,
     num_pages |-> Len(texts),
     num_images |-> num_images,
     legible |-> assess_legibility(texts),
     pages |-> [i \in 1..Len(texts) |-> [page_num |-> i, text |-> texts[i]]]]

ClassifyDocs ==
    {DocInfo(<<"scan", ".pdf">>, texts, 0) :
        texts \in {<<>>,
                   << <<F_Ssn>> >>,
                   << <<F_UnsafeKw>> >>,
                   << <<F_Plain>>, <<F_Profanity>> >>,
                   << <<F_BizEmail, F_Email>> >>}}

\* the prompts folder the classifier runs with
PromptsFolder ==
    [config |-> {[k \in {"unsafe", "sensitive", "public", "default"} |->
                    CASE k = "unsafe" -> <<BASE_TEMPLATE, "unsafe_rules.txt">>
                      [] k = "sensitive" -> <<BASE_TEMPLATE, "pii_rules.txt">>
                      [] OTHER -> <<BASE_TEMPLATE>>]},
     templates |-> {BASE_TEMPLATE, "unsafe_rules.txt", "pii_rules.txt"}]

Citation1 == [page |-> 1, reason |-> <<"first model citation">>]
Citation2 == [page |-> 2, reason |-> <<"second model citation">>]

\* what a model may say to explain itself: nothing, or a reasoning with one
\* citation
Explanations ==
    {[reasoning |-> {}, citations |-> {}],
     [reasoning |-> {}, citations |-> {[null |-> TRUE, items |-> <<>>]}],
     [reasoning |-> {<<"model reasoning">>},
      citations |-> {[null |-> FALSE, items |-> <<Citation1>>]}],
     [reasoning |-> {<<"model reasoning">>},
      citations |-> {[null |-> FALSE, items |-> <<Citation2>>]}]}

\* the JSON objects a model may answer with
LlmResponses ==
    {[category |-> c, unsafe |-> u, kid_safe |-> k, confidence |-> f,
      reasoning |-> e.reasoning, citations |-> e.citations] :
        c \in {{}, {<<>>}, {S_Confidential}, {S_HighlySensitive}, {S_Unsafe}},
        u \in {{}, {JBool(TRUE)}, {JBool(FALSE)}},
        k \in {{}, {JBool(TRUE)}, {JBool(FALSE)}},
        f \in {{}, {JNum(-10)}, {JNum(40)}, {JNum(60)}, {JNum(150)},
               {JText}, {JNull}, {JNaN}, {JHuge}},
        e \in Explanations}

----------------------------------------------------------------------------
(* One call of classify_document, step by step *)

LlmCall(model) ==
    [model |-> model, payload |-> locals.user_payload,
     system_prompt |-> locals.system_prompt]

\* lines 128-172: heuristics, prompt and payload
Prepare ==
    /\ pc = "start"
    /\ LET sp == build_system_prompt(context_flags(doc_info), PromptsFolder)
       IN  IF sp.ok
           THEN /\ locals' = [system_prompt |-> sp.text,
                              user_payload |-> user_payload(doc_info)]
                /\ pc' = "prepared"
                /\ UNCHANGED result
           ELSE /\ pc' = "raised"
                /\ result' = [exc |-> "FileNotFoundError"]
                /\ UNCHANGED locals
    /\ UNCHANGED <<doc_info, llm_calls, primary, validator, llm_raw, bp, pf, run, session_state, history, audit, notice>>

\* line 175: the primary call is sent
CallPrimary ==
    /\ pc = "prepared"
    /\ llm_calls' = Append(llm_calls, LlmCall(PRIMARY_MODEL))
    /\ pc' = "primary_call"
    /\ UNCHANGED <<doc_info, primary, validator, locals, result, llm_raw, bp, pf, run, session_state, history, audit, notice>>

\* the client returns the dict llm_raw and run_llm_classification normalizes it
PrimaryReturns ==
    /\ pc = "primary_call"
    /\ \E raw \in LlmResponses :
          LET r == run_llm_classification(raw)
          IN  IF r.exc = ""
              THEN primary' = r /\ pc' = "after_primary" /\ UNCHANGED result
              ELSE pc' = "raised" /\ result' = [exc |-> r.exc] /\ UNCHANGED primary
    /\ UNCHANGED <<doc_info, llm_calls, validator, locals, llm_raw, bp, pf, run, session_state, history, audit, notice>>

\* call_openrouter_chat raises (no key, HTTP error, malformed JSON, timeout)
PrimaryFails ==
    /\ pc = "primary_call"
    /\ pc' = "raised"
    /\ result' = [exc |-> "LLMClientError"]
    /\ UNCHANGED <<doc_info, llm_calls, primary, validator, locals, llm_raw, bp, pf, run, session_state, history, audit, notice>>

\* lines 178-180
CallValidator ==
    /\ pc = "after_primary"
    /\ NeedsValidator(primary)
    /\ llm_calls' = Append(llm_calls, LlmCall(VALIDATOR_MODEL))
    /\ pc' = "validator_call"
    /\ UNCHANGED <<doc_info, primary, validator, locals, result, llm_raw, bp, pf, run, session_state, history, audit, notice>>

ValidatorReturns ==
    /\ pc = "validator_call"
    /\ \E raw \in LlmResponses :
          LET r == run_llm_classification(raw)
          IN  IF r.exc = ""
              THEN validator' = r /\ pc' = "after_validator" /\ UNCHANGED result
              ELSE pc' = "raised" /\ result' = [exc |-> r.exc] /\ UNCHANGED validator
    /\ UNCHANGED <<doc_info, llm_calls, primary, locals, llm_raw, bp, pf, run, session_state, history, audit, notice>>

ValidatorFails ==
    /\ pc = "validator_call"
    /\ pc' = "raised"
    /\ result' = [exc |-> "LLMClientError"]
    /\ UNCHANGED <<doc_info, llm_calls, primary, validator, locals, llm_raw, bp, pf, run, session_state, history, audit, notice>>

\* lines 182-257: merge and return
Return ==
    /\ \/ pc = "after_primary" /\ ~NeedsValidator(primary)
       \/ pc = "after_validator"
    /\ result' = ClassificationResult(doc_info, primary, validator)
    /\ pc' = "done"
    /\ UNCHANGED <<doc_info, llm_calls, primary, validator, locals, llm_raw, bp, pf, run, session_state, history, audit, notice>>

InitClassify ==
    /\ pc = "start"
    /\ doc_info \in ClassifyDocs
    /\ llm_calls = <<>>
    /\ primary = None /\ validator = None /\ locals = None /\ result = None
    /\ llm_raw = None /\ bp = None /\ pf = None /\ run = None /\ session_state = None /\ history = None /\ audit = None /\ notice = None

NextClassify ==
    \/ Prepare
    \/ CallPrimary
    \/ PrimaryReturns
    \/ PrimaryFails
    \/ CallValidator
    \/ ValidatorReturns
    \/ ValidatorFails
    \/ Return

SpecClassify == InitClassify /\ [][NextClassify]_vars

----------------------------------------------------------------------------
(* One call of run_llm_classification on the dict the client returned *)

Normalize ==
    /\ pc = "llm_returned"
    /\ LET r == run_llm_classification(llm_raw)
       IN  IF r.exc = ""
           THEN result' = r /\ pc' = "normalized"
           ELSE result' = [exc |-> r.exc] /\ pc' = "raised"
    /\ UNCHANGED <<doc_info, llm_calls, primary, validator, locals, llm_raw, bp, pf, run, session_state, history, audit, notice>>

InitNormalize ==
    /\ pc = "llm_returned"
    /\ llm_raw \in LlmResponses
    /\ doc_info = None /\ llm_calls = <<>>
    /\ primary = None /\ validator = None /\ locals = None /\ result = None
    /\ bp = None /\ pf = None /\ run = None /\ session_state = None /\ history = None /\ audit = None /\ notice = None

NextNormalize == Normalize

SpecNormalize == InitNormalize /\ [][NextNormalize]_vars

----------------------------------------------------------------------------
(* backend/ingestion.py.  An uploaded file is [name, content]: name is the  *)
(* file name as uploaded, a sequence of chunks ending with the extension as *)
(* typed; content is what the bytes decode to: a PDF with its pages, an     *)
(* image with the text OCR reads from it, or neither.                       *)

\* str.lower() on the chunks the modelled file names are made of
LowerNameChunk(c) ==
    CASE c = "Scan" -> "scan"
      [] c = ".PDF" -> ".pdf"
      [] c = ".Png" -> ".png"
      [] c = ".JPG" -> ".jpg"
      [] c = ".Jpeg" -> ".jpeg"
      [] c = ".TXT" -> ".txt"
      [] OTHER -> c

lower(name) == MapSeq(name, LowerNameChunk)

\* name.endswith(ext): the extensions tested are whole chunks
endswith(name, ext) == name # <<>> /\ name[Len(name)] = ext

PdfContent(pages) == [format |-> "pdf", pages |-> pages, ocr_text |-> <<>>]
ImageContent(ocr_text) == [format |-> "image", pages |-> <<>>, ocr_text |-> ocr_text]
UndecodableContent == [format |-> "none", pages |-> <<>>, ocr_text |-> <<>>]

Returns(value) == [exc |-> "", value |-> value]
Raises(exc) == [exc |-> exc, value |-> None]

RECURSIVE SumImages(_)
SumImages(pdf_pages) ==
    IF pdf_pages = <<>> THEN 0
    ELSE Head(pdf_pages).images + SumImages(Tail(pdf_pages))

\* _process_pdf (lines 44-85); pdfplumber.open raises on bytes that are no PDF
process_pdf(file_bytes) ==
    IF file_bytes.format # "pdf" THEN Raises("PDFSyntaxError")
    ELSE LET page_texts == [i \in 1..Len(file_bytes.pages) |->
                               Get(file_bytes.pages[i].text, <<>>)]
         IN  Returns([num_pages |-> Len(page_texts),
                      num_images |-> SumImages(file_bytes.pages),
                      legible |-> assess_legibility(page_texts),
                      pages |-> [i \in 1..Len(page_texts) |->
                                    [page_num |-> i, text |-> page_texts[i]]]])

\* _process_image (lines 88-115); Image.open raises on bytes that are no
\* image, image_to_string raises when the Tesseract binary is missing
process_image(file_bytes, tesseract) ==
    IF file_bytes.format # "image" THEN Raises("UnidentifiedImageError")
    ELSE IF ~tesseract THEN Raises("TesseractNotFoundError")
    ELSE Returns([num_pages |-> 1,
                  num_images |-> 1,
                  legible |-> assess_legibility(<<file_bytes.ocr_text>>),
                  pages |-> <<[page_num |-> 1, text |-> file_bytes.ocr_text]>>])

ZeroPageInfo == [num_pages |-> 0, num_images |-> 0, legible |-> FALSE, pages |-> <<>>]

\* info["filename"] = uploaded_file.name (line 144)
WithFilename(r, filename) ==
    IF r.exc # "" THEN r
    ELSE Returns([filename |-> filename,
                  num_pages |-> r.value.num_pages,
                  num_images |-> r.value.num_images,
                  legible |-> r.value.legible,
                  pages |-> r.value.pages])

\* process_file with the try/except around every branch and the lower-cased
\* name stored
process_file_lenient(uploaded_file, tesseract) ==
    LET name == lower(uploaded_file.name)
        r == IF endswith(name, ".pdf") THEN process_pdf(uploaded_file.content)
             ELSE process_image(uploaded_file.content, tesseract)
    IN  WithFilename(IF r.exc # "" THEN Returns(ZeroPageInfo) ELSE r, name)

\* process_file (lines 118-145)
process_file(uploaded_file, tesseract) ==
    LET file_bytes == uploaded_file.content
        name == lower(uploaded_file.name)
        r == IF endswith(name, ".pdf") THEN process_pdf(file_bytes)
             ELSE IF \E ext \in {".png", ".jpg", ".jpeg"} : endswith(name, ext)
             THEN process_image(file_bytes, tesseract)
             ELSE LET t == process_image(file_bytes, tesseract)
                  IN  IF t.exc # "" THEN Returns(ZeroPageInfo) ELSE t
    IN  WithFilename(r, uploaded_file.name)

\* the files process_file is called on
FileNames ==
    {<<stem>> \o ext :
        stem \in {"scan", "Scan"},
        ext \in {<<".pdf">>, <<".PDF">>, <<".png">>, <<".Png">>, <<".JPG">>,
                 <<".jpeg">>, <<".Jpeg">>, <<".txt">>, <<".TXT">>, <<>>,
                 <<".pdf", ".bak">>}}

FileContents ==
    {PdfContent(<<>>),
     PdfContent(<<[text |-> {}, images |-> 2]>>),
     PdfContent(<<[text |-> {<<F_Plain, F_Plain>>}, images |-> 1],
                  [text |-> {<<F_Ssn>>}, images |-> 0]>>),
     ImageContent(<<>>),
     ImageContent(<<F_Plain, F_Phone, F_Address>>),
     UndecodableContent}

\* one call of process_file
ProcessFile ==
    /\ pc = "pf_call"
    /\ LET r == process_file(pf.uploaded_file, pf.tesseract)
       IN  /\ pf' = [pf EXCEPT !.out = r]
           /\ pc' = IF r.exc = "" THEN "pf_returned" ELSE "pf_raised"
    /\ UNCHANGED <<doc_info, llm_calls, primary, validator, locals, result, llm_raw, bp, run, session_state, history, audit, notice>>

InitIngest ==
    /\ pc = "pf_call"
    /\ pf \in {[uploaded_file |-> [name |-> n, content |-> c], tesseract |-> t, out |-> None] :
                  n \in FileNames, c \in FileContents, t \in BOOLEAN}
    /\ doc_info = None /\ llm_calls = <<>>
    /\ primary = None /\ validator = None /\ locals = None /\ result = None
    /\ llm_raw = None /\ bp = None /\ run = None /\ session_state = None /\ history = None /\ audit = None /\ notice = None

NextIngest == ProcessFile

SpecIngest == InitIngest /\ [][NextIngest]_vars

----------------------------------------------------------------------------
(* One call of build_system_prompt, over prompts folders and flag dicts *)

TemplateNames == {BASE_TEMPLATE, "unsafe_rules.txt", "pii_rules.txt", "default_rules.txt"}

ConfiguredList(k) ==
    CASE k = "unsafe" -> <<"unsafe_rules.txt", BASE_TEMPLATE>>
      [] k = "sensitive" -> <<BASE_TEMPLATE, "pii_rules.txt">>
      [] k = "public" -> <<BASE_TEMPLATE>>
      [] OTHER -> <<"default_rules.txt">>

PromptConfigs ==
    {[k \in d |-> ConfiguredList(k)] : d \in SUBSET {"unsafe", "sensitive", "public", "default"}}

PromptEnvs ==
    {[config |-> c, templates |-> t] :
        c \in {{}} \cup {{cfg} : cfg \in PromptConfigs},
        t \in SUBSET TemplateNames}

FlagDicts ==
    [unsafe_keyword_flag : {{}, {TRUE}, {FALSE}},
     has_ssn : {{}, {TRUE}, {FALSE}},
     has_pii : {{}, {TRUE}, {FALSE}}]

BuildSystemPrompt ==
    /\ pc = "bp_call"
    /\ LET r == build_system_prompt(bp.flags, bp.env)
       IN  /\ bp' = [bp EXCEPT !.out = r]
           /\ pc' = IF r.ok THEN "bp_returned" ELSE "bp_raised"
    /\ UNCHANGED <<doc_info, llm_calls, primary, validator, locals, result, llm_raw, pf, run, session_state, history, audit, notice>>

InitPrompt ==
    /\ pc = "bp_call"
    /\ bp \in {[flags |-> f, env |-> e, out |-> None] : f \in FlagDicts, e \in PromptEnvs}
    /\ doc_info = None /\ llm_calls = <<>>
    /\ primary = None /\ validator = None /\ locals = None /\ result = None
    /\ llm_raw = None /\ pf = None /\ run = None /\ session_state = None /\ history = None /\ audit = None /\ notice = None

NextPrompt == BuildSystemPrompt

SpecPrompt == InitPrompt /\ [][NextPrompt]_vars

----------------------------------------------------------------------------
(* classify_document and process_single as functions of their argument and  *)
(* of what the LLM client answers to the (at most two) calls.               *)

\* run_llm_classification on one answer of call_openrouter_chat
LlmOutcome(reply) ==
    IF reply.fails THEN [exc |-> "LLMClientError"]
    ELSE run_llm_classification(reply.raw)

\* classify_document (classification.py 120-257)
classify_document(doc, replies) ==
    LET sp == build_system_prompt(context_flags(doc), PromptsFolder)
        p == LlmOutcome(replies.primary)
        v == LlmOutcome(replies.validator)
    IN  IF ~sp.ok THEN Raises("FileNotFoundError")
        ELSE IF p.exc # "" THEN Raises(p.exc)
        ELSE IF ~NeedsValidator(p) THEN Returns(ClassificationResult(doc, p, None))
        ELSE IF v.exc # "" THEN Raises(v.exc)
        ELSE Returns(ClassificationResult(doc, p, v))

\* process_single (app.py 72-80)
process_single(uploaded_file, tesseract, replies) ==
    LET d == process_file(uploaded_file, tesseract)
        a == classify_document(d.value, replies)
    IN  IF d.exc # "" THEN Raises(d.exc)
        ELSE IF a.exc # "" THEN Raises(a.exc)
        ELSE Returns([filename |-> uploaded_file.name,
                      doc_info |-> d.value,
                      ai_result |-> a.value])

----------------------------------------------------------------------------
(* The run block of the Upload & Analyze page (app.py 66-108) and the Clear *)
(* button (202-204).  run holds the locals of the block and, per submitted  *)
(* file, its future: pending in the executor's queue, running on a worker   *)
(* thread, finished (result or exception set), yielded by as_completed.     *)
(* The submissions of line 89-91 are taken as one step: a worker touches    *)
(* nothing but its own future.                                              *)

MaxFiles == 5
MaxWorkers == 4

Answer(category, confidence) ==
    [category |-> {category}, unsafe |-> {JBool(FALSE)}, kid_safe |-> {JBool(TRUE)},
     confidence |-> {JNum(confidence)}, reasoning |-> {<<"model reasoning">>},
     citations |-> {}]

Replied(raw) == [fails |-> FALSE, raw |-> raw]
NoReply == [fails |-> TRUE, raw |-> Answer(S_Public, DEFAULT_CONFIDENCE)]

\* what the LLM client does during one process_single: answers confidently,
\* fails on the primary call, or fails on the validator call
BatchReplies ==
    {[primary |-> Replied(Answer(S_Confidential, 90)), validator |-> NoReply],
     [primary |-> NoReply, validator |-> NoReply],
     [primary |-> Replied(Answer(S_Confidential, 40)), validator |-> NoReply]}

\* the i-th file of the upload: a two-page PDF, an image, a PDF with corrupt
\* bytes, and so on
UploadedFile(i) ==
    CASE i % 3 = 1 ->
            [name |-> <<"doc", ToString(i), ".pdf">>,
             content |-> PdfContent(<<[text |-> {<<F_Plain, F_Plain>>}, images |-> 1],
                                      [text |-> {<<F_Ssn>>}, images |-> 0]>>)]
      [] i % 3 = 2 ->
            [name |-> <<"doc", ToString(i), ".png">>,
             content |-> ImageContent(<<F_Plain, F_Phone>>)]
      [] OTHER ->
            [name |-> <<"doc", ToString(i), ".pdf">>,
             content |-> UndecodableContent]

TesseractInstalled == TRUE

\* an entry stored by an earlier batch of the session
EarlierEntry ==
    process_single([name |-> <<"earlier", ".png">>, content |-> ImageContent(<<F_Plain>>)],
                   TesseractInstalled,
                   [primary |-> Replied(Answer(S_Public, 90)), validator |-> NoReply]).value

\* the script before "Run Analysis" is clicked
IdleRun ==
    [phase |-> "idle", uploaded_files |-> <<>>, total |-> 0, done |-> 0,
     results |-> <<>>, errors |-> <<>>, progress |-> {}, status_placeholder |-> {},
     max_workers |-> 0, future |-> <<>>, attempts |-> <<>>]

Future(state, outcome) == [state |-> state, outcome |-> outcome]

RunningFutures(r) == {i \in 1..r.total : r.future[i].state = "running"}

\* the worker threads take the queued calls in submission order
NextPending(r, i) ==
    /\ r.future[i].state = "pending"
    /\ \A j \in 1..(i - 1) : r.future[j].state # "pending"

\* as_completed has yielded one future only
SomeCompleted(r) == \E i \in 1..r.total : r.future[i].state = "yielded"

\* as_completed has yielded every future: the loop of line 92 ends
AllCompleted(r) == \A i \in 1..r.total : r.future[i].state = "yielded"

\* the results list with a failure emptying it
ResultsAfterCancelling(results, outcome) ==
    IF outcome.exc = "" THEN Append(results, outcome.value) ELSE <<>>

\* lines 94-101: results after future.result() returned or raised
ResultsAfter(results, outcome) ==
    IF outcome.exc = "" THEN Append(results, outcome.value) ELSE results

\* lines 66-91
RunAnalysis ==
    /\ run.phase = "idle"
    /\ \E n \in 1..MaxFiles :
          run' = [phase |-> "running",
                  uploaded_files |-> [i \in 1..n |-> UploadedFile(i)],
                  total |-> n,
                  done |-> 0,
                  results |-> <<>>,
                  errors |-> <<>>,
                  progress |-> {[num |-> 0, den |-> 1]},
                  status_placeholder |-> {},
                  max_workers |-> Min2(MaxWorkers, n),
                  future |-> [i \in 1..n |-> Future("pending", None)],
                  attempts |-> [i \in 1..n |-> 0]]
    /\ UNCHANGED <<pc, doc_info, llm_calls, primary, validator, locals, result, llm_raw, bp, pf, session_state, history, audit, notice>>

\* a worker thread takes the next queued call of process_single
StartWorker(i) ==
    /\ run.phase = "running"
    /\ NextPending(run, i)
    /\ Cardinality(RunningFutures(run)) < run.max_workers
    /\ run' = [run EXCEPT !.future[i].state = "running",
                          !.attempts[i] = @ + 1]
    /\ UNCHANGED <<pc, doc_info, llm_calls, primary, validator, locals, result, llm_raw, bp, pf, session_state, history, audit, notice>>

\* process_single returns or raises on its worker thread
FinishWorker(i) ==
    /\ run.phase = "running"
    /\ run.future[i].state = "running"
    /\ \E replies \in BatchReplies :
          run' = [run EXCEPT !.future[i] =
                     Future("finished",
                            process_single(run.uploaded_files[i], TesseractInstalled, replies))]
    /\ UNCHANGED <<pc, doc_info, llm_calls, primary, validator, locals, result, llm_raw, bp, pf, session_state, history, audit, notice>>

\* one iteration of the as_completed loop (lines 92-101)
HandleCompleted(i) ==
    /\ run.phase = "running"
    /\ run.future[i].state = "finished"
    /\ LET f == run.uploaded_files[i]
           outcome == run.future[i].outcome
       IN  IF outcome.exc = ""
           THEN run' = [run EXCEPT !.future[i].state = "yielded",
                                   !.results = ResultsAfter(@, outcome),
                                   !.done = @ + 1,
                                   !.progress = {[num |-> run.done + 1, den |-> run.total]},
                                   !.status_placeholder = {<<"Finished: ">> \o f.name}]
           ELSE run' = [run EXCEPT !.future[i].state = "yielded",
                                   !.results = ResultsAfter(@, outcome),
                                   !.errors = Append(@, [filename |-> f.name,
                                                         error |-> outcome.exc])]
    /\ UNCHANGED <<pc, doc_info, llm_calls, primary, validator, locals, result, llm_raw, bp, pf, session_state, history, audit, notice>>

\* lines 103-108
StoreResults ==
    /\ run.phase = "running"
    /\ AllCompleted(run)
    /\ run' = [run EXCEPT !.phase = "rendered",
                          !.progress = {},
                          !.status_placeholder = {}]
    /\ session_state' = [session_state EXCEPT !.results = run.results]
    /\ UNCHANGED <<pc, doc_info, llm_calls, primary, validator, locals, result, llm_raw, bp, pf, history, audit, notice>>

\* "Clear current results" (lines 111, 202-204): the script reruns from the top
ClearResults ==
    /\ run.phase \in {"idle", "rendered"}
    /\ session_state.results # <<>>
    /\ session_state' = [session_state EXCEPT !.results = <<>>]
    /\ run' = IdleRun
    /\ UNCHANGED <<pc, doc_info, llm_calls, primary, validator, locals, result, llm_raw, bp, pf, history, audit, notice>>

\* a session on the Upload & Analyze page, its stored results empty (lines
\* 31-32) or left by an earlier batch
InitBatch ==
    /\ run = IdleRun
    /\ session_state \in {[results |-> <<>>], [results |-> <<EarlierEntry>>]}
    /\ pc = "app" /\ doc_info = None /\ llm_calls = <<>>
    /\ primary = None /\ validator = None /\ locals = None /\ result = None
    /\ llm_raw = None /\ bp = None /\ pf = None
    /\ history = None /\ audit = None /\ notice = None

NextBatch ==
    \/ RunAnalysis
    \/ \E i \in 1..MaxFiles : i <= run.total /\ StartWorker(i)
    \/ \E i \in 1..MaxFiles : i <= run.total /\ FinishWorker(i)
    \/ \E i \in 1..MaxFiles : i <= run.total /\ HandleCompleted(i)
    \/ StoreResults
    \/ ClearResults

SpecBatch == InitBatch /\ [][NextBatch]_vars

----------------------------------------------------------------------------
(* The history store and the History & Audit page (app.py 209-262).         *)
(* backend/storage.py is not among the sources: save_result and             *)
(* load_history follow their contract (section 4.6 of the specification):   *)
(* the store is the sequence of the records saved, load_history returns it. *)
(* A timestamp is a value of a totally ordered set (here a number).         *)

MaxRecords == 3

Timestamps == 1..3

\* the record save_result builds
ReviewRecord(filename, timestamp, ai_result, final_category, reviewer_comment) ==
    [filename |-> filename,
     timestamp |-> timestamp,
     ai_category |-> ai_result.category,
     final_category |-> final_category,
     unsafe |-> ai_result.unsafe,
     kid_safe |-> ai_result.kid_safe,
     confidence |-> ai_result.confidence,
     reviewer_comment |-> reviewer_comment]

load_history(store) == store

RowOrders(n) ==
    {p \in [1..n -> 1..n] : \A i, j \in 1..n : i # j => p[i] # p[j]}

\* the rows in ascending order of timestamp
sort_values_ascending(df) ==
    {[i \in 1..Len(df) |-> df[p[i]]] :
        p \in {q \in RowOrders(Len(df)) :
                  \A i \in 1..(Len(df) - 1) :
                      df[q[i]].timestamp <= df[q[i + 1]].timestamp}}

\* df.sort_values("timestamp", ascending=False) (line 224): the default sort
\* is not stable, rows of equal timestamp come in any order
sort_values_descending(df) ==
    {[i \in 1..Len(df) |-> df[p[i]]] :
        p \in {q \in RowOrders(Len(df)) :
                  \A i \in 1..(Len(df) - 1) :
                      df[q[i]].timestamp >= df[q[i + 1]].timestamp}}

\* df_sorted["filename"].unique().tolist() (line 244): first occurrences
RECURSIVE unique_filenames(_)
unique_filenames(rows) ==
    IF rows = <<>> THEN <<>>
    ELSE LET init == unique_filenames(SubSeq(rows, 1, Len(rows) - 1))
             last == rows[Len(rows)].filename
         IN  IF \E i \in 1..Len(init) : init[i] = last THEN init
             ELSE Append(init, last)

\* lines 247-248
latest_row(df_sorted, selected) ==
    Head(SelectSeq(df_sorted, LAMBDA r : r.filename = selected))

S_EmDash == <<"(em dash)">>

\* what lines 250-262 write for the row
DetailView(selected, latest) ==
    [title |-> selected,
     ai_category |-> latest.ai_category,
     final_category |-> latest.final_category,
     unsafe |-> latest.unsafe,
     kid_safe |-> latest.kid_safe,
     confidence |-> latest.confidence,
     reviewer_comment |-> IF latest.reviewer_comment = <<>> THEN S_EmDash
                          ELSE latest.reviewer_comment,
     timestamp |-> latest.timestamp]

\* one run of the script on the History & Audit page, with the document the
\* user has selected
RenderHistory ==
    /\ pc \in {"history_page", "history_rendered"}
    /\ pc' = "history_rendered"
    /\ LET loaded == load_history(history)
       IN  IF loaded = <<>>
           THEN audit' = [empty |-> TRUE, table |-> <<>>, filenames |-> <<>>,
                          selected |-> <<>>, detail |-> None]
           ELSE \E df_sorted \in sort_values_descending(loaded) :
                  LET filenames == unique_filenames(df_sorted)
                  IN  \E k \in 1..Len(filenames) :
                        audit' = [empty |-> FALSE,
                                  table |-> df_sorted,
                                  filenames |-> filenames,
                                  selected |-> filenames[k],
                                  detail |-> DetailView(filenames[k],
                                                latest_row(df_sorted, filenames[k]))]
    /\ UNCHANGED <<doc_info, llm_calls, primary, validator, locals, result, llm_raw, bp, pf, run, session_state, history, notice>>

\* the reviews a store may hold
StoredRecords ==
    {ReviewRecord(f, t, EarlierEntry.ai_result, v.final_category, v.reviewer_comment) :
        f \in {<<"a", ".pdf">>, <<"b", ".pdf">>},
        t \in Timestamps,
        v \in {[final_category |-> S_Public, reviewer_comment |-> <<>>],
               [final_category |-> S_Confidential, reviewer_comment |-> <<"second look">>]}}

Stores == UNION {[1..n -> StoredRecords] : n \in 0..MaxRecords}

InitHistory ==
    /\ pc = "history_page"
    /\ history \in Stores
    /\ audit = None
    /\ doc_info = None /\ llm_calls = <<>>
    /\ primary = None /\ validator = None /\ locals = None /\ result = None
    /\ llm_raw = None /\ bp = None /\ pf = None /\ run = None /\ session_state = None
    /\ notice = None

NextHistory == RenderHistory

SpecHistory == InitHistory /\ [][NextHistory]_vars

----------------------------------------------------------------------------
(* Human review on the Upload & Analyze page (app.py 111-199).  The session *)
(* holds the results of a batch and, per file name, the widget values under *)
(* the keys override_<filename> and comment_<filename>.                     *)

S_NoOverride == <<"No override">>

\* str.strip() on a text whose blank chunks are " "
RECURSIVE lstrip(_)
lstrip(text) ==
    IF text # <<>> /\ Head(text) = " " THEN lstrip(Tail(text)) ELSE text
RECURSIVE rstrip(_)
rstrip(text) ==
    IF text # <<>> /\ text[Len(text)] = " "
    THEN rstrip(SubSeq(text, 1, Len(text) - 1)) ELSE text
strip(text) == rstrip(lstrip(text))

\* lines 184-188
final_category(ai_result, override_choice) ==
    IF override_choice = S_NoOverride THEN ai_result.category ELSE override_choice

\* save_result: appends the record to the store, or raises and leaves it
save_result(store, filename, ai_result, final, reviewer_comment, now) ==
    Append(store, ReviewRecord(filename, now, ai_result, final, reviewer_comment))

\* the session with the saved file taken off the stored results
SessionWithoutSaved(session, filename) ==
    [session EXCEPT !.results = SelectSeq(@, LAMBDA item : item.filename # filename)]

\* the session after the Save handler (lines 183-199): it assigns no key
SessionAfterSave(session, filename) == session

\* the two results of the batch under review
ReviewedResults ==
    <<process_single(UploadedFile(1), TesseractInstalled,
                     [primary |-> Replied(Answer(S_Confidential, 90)),
                      validator |-> NoReply]).value,
      process_single(UploadedFile(2), TesseractInstalled,
                     [primary |-> Replied(Answer(S_Public, 90)),
                      validator |-> NoReply]).value>>

ReviewedNames == {ReviewedResults[i].filename : i \in 1..Len(ReviewedResults)}

OverrideChoices == {S_NoOverride, S_HighlySensitive}

CommentTexts == {<<>>, <<" ", "agree", " ">>}

\* the reviewer picks an override for a file (st.selectbox, lines 171-175)
SelectOverride(filename) ==
    /\ pc = "review"
    /\ \E choice \in OverrideChoices :
          session_state' = [session_state EXCEPT !.override[filename] = choice]
    /\ UNCHANGED <<pc, doc_info, llm_calls, primary, validator, locals, result, llm_raw, bp, pf, run, history, audit, notice>>

\* the reviewer types a comment for a file (st.text_area, lines 177-181)
EditComment(filename) ==
    /\ pc = "review"
    /\ \E text \in CommentTexts :
          session_state' = [session_state EXCEPT !.comment[filename] = text]
    /\ UNCHANGED <<pc, doc_info, llm_calls, primary, validator, locals, result, llm_raw, bp, pf, run, history, audit, notice>>

\* Save is clicked on the card of item k (lines 183-199); the clock has
\* advanced by one tick since the last record was stored
Save(k) ==
    /\ pc = "review"
    /\ k \in 1..Len(session_state.results)
    /\ LET item == session_state.results[k]
           filename == item.filename
           final == final_category(item.ai_result, session_state.override[filename])
           reviewer_comment == strip(session_state.comment[filename])
       IN  /\ \/ /\ Len(history) < MaxRecords
                 /\ history' = save_result(history, filename, item.ai_result, final,
                                           reviewer_comment, Len(history) + 1)
                 /\ notice' = [kind |-> "success", filename |-> filename]
              \/ /\ history' = history
                 /\ notice' = [kind |-> "error", filename |-> filename]
           /\ session_state' = SessionAfterSave(session_state, filename)
    /\ UNCHANGED <<pc, doc_info, llm_calls, primary, validator, locals, result, llm_raw, bp, pf, run, audit>>

\* the page after a batch was stored and its cards rendered: every
\* override key holds "No override" (lines 168-169), every comment is empty
InitReview ==
    /\ pc = "review"
    /\ session_state = [results |-> ReviewedResults,
                        override |-> [f \in ReviewedNames |-> S_NoOverride],
                        comment |-> [f \in ReviewedNames |-> <<>>]]
    /\ history = <<>>
    /\ notice = None /\ audit = None
    /\ doc_info = None /\ llm_calls = <<>>
    /\ primary = None /\ validator = None /\ locals = None /\ result = None
    /\ llm_raw = None /\ bp = None /\ pf = None /\ run = None

NextReview ==
    \/ \E f \in ReviewedNames : SelectOverride(f)
    \/ \E f \in ReviewedNames : EditComment(f)
    \/ \E k \in 1..Len(ReviewedResults) : Save(k)

SpecReview == InitReview /\ [][NextReview]_vars

----------------------------------------------------------------------------
(* One call of find_pii, over documents of one or two pages *)

F_Address2 == [kind |-> "address", value |-> <<"34 Oak Ave">>, chars |-> 10]

PiiFragments == {F_Plain, F_Address, F_Address2, F_Ssn, F_BizEmail}

\* the page texts: up to two fragments, e.g. "12 Main St, 34 Oak Ave"
PiiTexts ==
    {<<>>} \cup {<<a>> : a \in PiiFragments}
           \cup {<<a, b>> : a \in PiiFragments, b \in PiiFragments}

PiiPages ==
    {<<[page_num |-> 1, text |-> t]>> : t \in PiiTexts}
    \cup {<<[page_num |-> 1, text |-> t], [page_num |-> 2, text |-> u]>> :
             t \in PiiTexts, u \in PiiTexts}

FindPii ==
    /\ pc = "pii_call"
    /\ result' = find_pii(doc_info.pages)
    /\ pc' = "pii_returned"
    /\ UNCHANGED <<doc_info, llm_calls, primary, validator, locals, llm_raw, bp, pf, run, session_state, history, audit, notice>>

InitPii ==
    /\ pc = "pii_call"
    /\ doc_info \in {[pages |-> p] : p \in PiiPages}
    /\ result = None
    /\ llm_calls = <<>>
    /\ primary = None /\ validator = None /\ locals = None
    /\ llm_raw = None /\ bp = None /\ pf = None /\ run = None /\ session_state = None
    /\ history = None /\ audit = None /\ notice = None

NextPii == FindPii

SpecPii == InitPii /\ [][NextPii]_vars

----------------------------------------------------------------------------
(* Properties of classify_document (SpecClassify) *)

Returned == pc = "done"
ValidatorCalls == SelectSeq(llm_calls, LAMBDA c : c.model = VALIDATOR_MODEL)
ValidatorDiffers ==
    /\ validator # None
    /\ validator.category # primary.category \/ validator.unsafe # primary.unsafe

\* C1: the validator is called iff the primary's normalized confidence is
\* strictly below 0.6; then exactly once, after the primary call returned, with
\* the payload and the system prompt of the primary call; at most two calls.
C1_ValidatorEscalation ==
    /\ Len(llm_calls) <= 2
    /\ Len(ValidatorCalls) <= 1
    /\ Len(llm_calls) >= 1 => llm_calls[1].model = PRIMARY_MODEL
    /\ Len(llm_calls) = 2 =>
          /\ primary # None
          /\ primary.confidence < 60
          /\ llm_calls[2].model = VALIDATOR_MODEL
          /\ llm_calls[2].payload = llm_calls[1].payload
          /\ llm_calls[2].system_prompt = llm_calls[1].system_prompt
    /\ Returned => (Len(ValidatorCalls) = 1 <=> primary.confidence < 60)
    /\ Returned /\ primary.confidence >= 60 => Len(llm_calls) = 1 /\ validator = None

C1_Witness ==
    /\ Returned
    /\ primary.confidence = 40
    /\ Len(llm_calls) = 2
    /\ validator # None

\* C4: when the merged unsafe flag is true the category after the unsafe rule
\* contains "Unsafe": "<category> and Unsafe" for a non-empty category without
\* it, "Unsafe" for the empty one, unchanged when it already contains it; and a
\* returned result with unsafe = true has a category containing "Unsafe".
C4_UnsafeComposition ==
    Returned =>
        LET before == Combined(primary, validator).category
            flag == Combined(primary, validator).unsafe_flag_llm
                    \/ unsafe_flag_heuristic(doc_info)
            after == AfterUnsafeRule(doc_info, primary, validator).category
        IN  /\ result.unsafe = flag
            /\ flag => Contains(after, <<"Unsafe">>)
            /\ flag /\ before # <<>> /\ ~Contains(before, <<"Unsafe">>)
                  => after = before \o <<" ", "and", " ", "Unsafe">>
            /\ flag /\ before = <<>> => after = <<"Unsafe">>
            /\ flag /\ Contains(before, <<"Unsafe">>) => after = before
            /\ ~flag => after = before
            /\ result.unsafe => Contains(result.category, <<"Unsafe">>)

C4_Witness ==
    /\ Returned
    /\ result.unsafe
    /\ Combined(primary, validator).category = <<"Confidential">>
    /\ result.category = <<"Confidential", " ", "and", " ", "Unsafe">>

\* C5 as stated: with an ssn finding retained, the returned category contains
\* "Highly Sensitive" ("Highly Sensitive and Unsafe" when the category contained
\* "Unsafe" after the unsafe rule) and the returned confidence is at least 0.9.
C5_SsnOverrideAsStated ==
    Returned /\ has_ssn(doc_info) =>
        /\ Contains(result.category, <<"Highly", " ", "Sensitive">>)
        /\ Contains(AfterUnsafeRule(doc_info, primary, validator).category, <<"Unsafe">>)
              => result.category = <<"Highly", " ", "Sensitive", " ", "and", " ", "Unsafe">>
        /\ result.confidence >= 90

\* C5 (amended): with an ssn finding retained, the returned category contains
\* "Highly Sensitive"; when the category after the unsafe rule did not contain
\* "Highly Sensitive" it becomes "Highly Sensitive and Unsafe" (if it contained
\* "Unsafe") or "Highly Sensitive", and the confidence is raised to at least
\* 0.9; when it already contained "Highly Sensitive", category and confidence
\* are returned as they were.
C5_SsnOverride ==
    Returned /\ has_ssn(doc_info) =>
        LET after == AfterUnsafeRule(doc_info, primary, validator)
        IN  /\ Contains(result.category, <<"Highly", " ", "Sensitive">>)
            /\ ~Contains(after.category, <<"Highly", " ", "Sensitive">>) =>
                  /\ result.category =
                        IF Contains(after.category, <<"Unsafe">>)
                        THEN <<"Highly", " ", "Sensitive", " ", "and", " ", "Unsafe">>
                        ELSE <<"Highly", " ", "Sensitive">>
                  /\ result.confidence >= 90
                  /\ result.confidence >= after.confidence
                  /\ result.confidence \in {90, after.confidence}
            /\ Contains(after.category, <<"Highly", " ", "Sensitive">>) =>
                  /\ result.category = after.category
                  /\ result.confidence = after.confidence

C5_Witness ==
    /\ Returned
    /\ has_ssn(doc_info)
    /\ Combined(primary, validator).category = <<"Confidential">>
    /\ Combined(primary, validator).confidence = 40
    /\ result.unsafe
    /\ result.category = <<"Highly", " ", "Sensitive", " ", "and", " ", "Unsafe">>
    /\ result.confidence = 90

\* C6: the returned kid_safe is false whenever a page has profanity or the
\* merged unsafe flag is true, whatever the models said; it is true only when
\* the model-derived kid_safe is true, the flag false and no page has
\* profanity; no result has unsafe and kid_safe both true.
C6_KidSafeForcing ==
    Returned =>
        /\ prof_pages(doc_info) # <<>> => ~result.kid_safe
        /\ result.unsafe => ~result.kid_safe
        /\ result.kid_safe <=>
              /\ Combined(primary, validator).kid_safe
              /\ ~result.unsafe
              /\ prof_pages(doc_info) = <<>>

C6_Witness ==
    /\ Returned
    /\ prof_pages(doc_info) # <<>>
    /\ primary.kid_safe
    /\ validator = None
    /\ ~result.unsafe
    /\ ~result.kid_safe

\* C7: when the validator ran and differs on category or unsafe, its category,
\* unsafe and kid_safe are used, the merged confidence is
\* min(primary, validator, 0.7) and its citations follow the primary's;
\* otherwise the primary's values are used unchanged.
C7_ModelMerge ==
    Returned =>
        LET m == Combined(primary, validator)
        IN  /\ ValidatorDiffers =>
                  /\ m.category = validator.category
                  /\ m.unsafe_flag_llm = validator.unsafe
                  /\ m.kid_safe = validator.kid_safe
                  /\ m.confidence <= primary.confidence
                  /\ m.confidence <= validator.confidence
                  /\ m.confidence <= 70
                  /\ m.confidence \in {primary.confidence, validator.confidence, 70}
                  /\ m.citations = primary.citations \o validator.citations
                  /\ SubSeq(result.citations, 1, Len(m.citations))
                        = primary.citations \o validator.citations
                  /\ ~has_ssn(doc_info) => result.confidence = m.confidence
            /\ ~ValidatorDiffers =>
                  /\ m.category = primary.category
                  /\ m.unsafe_flag_llm = primary.unsafe
                  /\ m.kid_safe = primary.kid_safe
                  /\ m.confidence = primary.confidence
                  /\ m.reasoning = primary.reasoning
                  /\ m.citations = primary.citations
                  /\ SubSeq(result.citations, 1, Len(m.citations)) = primary.citations
                  /\ ~has_ssn(doc_info) => result.confidence = primary.confidence

C7_Witness ==
    /\ Returned
    /\ ValidatorDiffers
    /\ validator.category # primary.category
    /\ primary.confidence = 40
    /\ validator.confidence = 100
    /\ primary.citations = <<Citation1>>
    /\ validator.citations = <<Citation2>>
    /\ result.confidence = 40
    /\ SubSeq(result.citations, 1, 2) = <<Citation1, Citation2>>

----------------------------------------------------------------------------
(* Properties of run_llm_classification (SpecNormalize) *)

\* what C8 says the normalized confidence of a reported value is: the number
\* clamped, 0.6 when missing or not a number (NaN is left open: any value in
\* the range)
C8_Says(reported, normalized) ==
    IF reported = {} THEN normalized = 60
    ELSE LET v == CHOOSE x \in reported : TRUE
         IN  CASE v.t \in {"num", "numstr"} ->
                    normalized = (IF v.n < 0 THEN 0 ELSE IF v.n > 100 THEN 100 ELSE v.n)
               [] v.t = "huge" -> normalized = 100
               [] v.t \in {"text", "null"} -> normalized = 60
               [] OTHER -> normalized \in 0..100

\* C8: for every LLM response the normalized confidence is the reported
\* number clamped into [0.0, 1.0], and 0.6 when the field is missing or not
\* parseable as a number.
C8_ConfidenceNormalization ==
    pc # "llm_returned" =>
        /\ pc = "normalized"
        /\ C8_Says(llm_raw.confidence, result.confidence)

----------------------------------------------------------------------------
(* Properties of build_system_prompt (SpecPrompt) *)

\* C9: the routing key is "unsafe" whenever unsafe_keyword_flag is set, else
\* "sensitive" when has_ssn or has_pii is set, else "public"; the template
\* list is the one configured for the key, else the one of "default", else
\* ["base_classification.txt"]; the prompt is made of the listed templates
\* that exist, and of base_classification.txt alone when none of them exists.
C9_PromptRouting ==
    pc # "bp_call" =>
        LET f == bp.flags
            key == IF f.unsafe_keyword_flag = {TRUE} THEN "unsafe"
                   ELSE IF f.has_ssn = {TRUE} \/ f.has_pii = {TRUE} THEN "sensitive"
                   ELSE "public"
            configured == UNION {DOMAIN c : c \in bp.env.config}
            cfg == CHOOSE c \in bp.env.config : TRUE
            list == IF key \in configured THEN cfg[key]
                    ELSE IF "default" \in configured THEN cfg["default"]
                    ELSE <<"base_classification.txt">>
            present == SelectSeq(list, LAMBDA t : t \in bp.env.templates)
        IN  /\ bp.out.key = key
            /\ bp.out.template_list = list
            /\ present # <<>> => pc = "bp_returned" /\ bp.out.pieces = present
            /\ present = <<>> /\ pc = "bp_returned"
                  => bp.out.pieces = <<"base_classification.txt">>
            /\ present = <<>> /\ "base_classification.txt" \in bp.env.templates
                  => pc = "bp_returned"

C9_Witness ==
    /\ pc = "bp_returned"
    /\ bp.flags.unsafe_keyword_flag = {TRUE}
    /\ bp.flags.has_ssn = {FALSE}
    /\ bp.flags.has_pii = {TRUE}
    /\ \E c \in bp.env.config : {"unsafe", "sensitive"} \subseteq DOMAIN c
    /\ bp.out.key = "unsafe"
    /\ bp.out.pieces = <<"unsafe_rules.txt", "base_classification.txt">>

----------------------------------------------------------------------------
(* Properties of process_file (SpecIngest) *)

NameEnds(exts) ==
    LET n == pf.uploaded_file.name IN n # <<>> /\ n[Len(n)] \in exts
PdfName == NameEnds({".pdf", ".PDF"})
ImageName == NameEnds({".png", ".Png", ".jpg", ".JPG", ".jpeg", ".Jpeg"})
DecodingFails ==
    IF PdfName THEN pf.uploaded_file.content.format # "pdf"
    ELSE pf.uploaded_file.content.format # "image" \/ ~pf.tesseract

\* C10: a decoding error is swallowed only for an unrecognized extension,
\* where the zero-page document is returned; for a name ending, in any case,
\* in .pdf, .png, .jpg or .jpeg it propagates; a returned document carries
\* the uploaded file name as it was given.
C10_IngestionFallback ==
    pc # "pf_call" =>
        /\ (PdfName \/ ImageName) /\ DecodingFails => pc = "pf_raised"
        /\ ~(PdfName \/ ImageName) /\ DecodingFails =>
              /\ pc = "pf_returned"
              /\ pf.out.value = [filename |-> pf.uploaded_file.name,
                                num_pages |-> 0, num_images |-> 0,
                                legible |-> FALSE, pages |-> <<>>]
        /\ ~DecodingFails =>
              /\ pc = "pf_returned"
              /\ pf.out.value.num_pages = Len(pf.out.value.pages)
              /\ PdfName \/ pf.out.value.num_pages = 1
        /\ pc = "pf_returned" => pf.out.value.filename = pf.uploaded_file.name

C10_Witness ==
    /\ pc = "pf_returned"
    /\ pf.uploaded_file.name = <<"Scan", ".TXT">>
    /\ pf.uploaded_file.content.format = "none"
    /\ pf.out.value.filename = <<"Scan", ".TXT">>
    /\ pf.out.value.num_pages = 0
    /\ ~pf.out.value.legible

----------------------------------------------------------------------------
(* Properties of the batch run (SpecBatch) *)

Completed(i) == run.future[i].state \in {"finished", "yielded"}
Failed(i) == Completed(i) /\ run.future[i].outcome.exc # ""
Succeeded(i) == Completed(i) /\ run.future[i].outcome.exc = ""
\* the entries of a list of dicts that carry the name of file i
EntriesFor(list, i) ==
    Len(SelectSeq(list, LAMBDA e : e.filename = run.uploaded_files[i].name))

\* C2: at most min(4, N) workers run at once and every file is attempted at
\* most once, exactly once by the end of the run; each file that succeeded
\* has exactly one entry in the results and no error, each file that failed
\* has no entry and exactly one error naming it, at every moment after its
\* future was handled, whatever happens to the other files; the list stored
\* after the run has the N - |F| entries of the files that succeeded.
C2_BatchIsolation ==
    run.phase # "idle" =>
        LET N == run.total
            files == 1..N
            running == {i \in files : run.future[i].state = "running"}
            handled == {i \in files : run.future[i].state = "yielded"}
        IN  /\ Cardinality(running) <= (IF N < 4 THEN N ELSE 4)
            /\ \A i \in files :
                  /\ run.attempts[i] <= 1
                  /\ run.attempts[i] = 1 <=> run.future[i].state # "pending"
                  /\ i \in handled /\ Succeeded(i) =>
                        /\ EntriesFor(run.results, i) = 1
                        /\ EntriesFor(run.errors, i) = 0
                  /\ i \in handled /\ Failed(i) =>
                        /\ EntriesFor(run.results, i) = 0
                        /\ EntriesFor(run.errors, i) = 1
                  /\ i \notin handled =>
                        /\ EntriesFor(run.results, i) = 0
                        /\ EntriesFor(run.errors, i) = 0
            /\ Len(run.results) + Len(run.errors) = Cardinality(handled)
            /\ run.phase = "rendered" =>
                  /\ handled = files
                  /\ \A i \in files : run.attempts[i] = 1
                  /\ session_state.results = run.results
                  /\ Len(session_state.results)
                        = N - Cardinality({i \in files : Failed(i)})
                  /\ \A i \in files :
                        EntriesFor(session_state.results, i)
                            = (IF Failed(i) THEN 0 ELSE 1)

C2_Witness ==
    /\ run.phase = "rendered"
    /\ run.total = 5
    /\ run.max_workers = 4
    /\ {i \in 1..5 : Failed(i)} = {3}
    /\ Len(session_state.results) = 4
    /\ run.errors = <<[filename |-> <<"doc", "3", ".pdf">>, error |-> "PDFSyntaxError"]>>
    /\ EntriesFor(session_state.results, 5) = 1

\* C3: while the batch runs, session_state["results"] keeps its value; it is
\* replaced in the one step that ends the run, by the whole results list, and
\* that step is taken only when every future has completed and been handled.
C3_WholeBatchStored ==
    [][ /\ run.phase = "running" /\ run'.phase = "running"
              => session_state' = session_state
        /\ run.phase = "running" /\ run'.phase # "running" =>
              /\ run'.phase = "rendered"
              /\ \A i \in 1..run.total : run.future[i].state = "yielded"
              /\ Len(run.results) + Len(run.errors) = run.total
              /\ session_state'.results = run.results
        /\ run.phase = "rendered" /\ session_state'.results # session_state.results
              => session_state'.results = <<>> /\ run'.phase = "idle"
      ]_vars

\* a moment of the run at which results have been collected and a worker is
\* still running, the session holding the earlier batch
C3_Witness ==
    /\ run.phase = "running"
    /\ run.total = 5
    /\ Len(run.results) = 2
    /\ \E i \in 1..run.total : run.future[i].state = "running"
    /\ \E i \in 1..run.total : run.future[i].state = "pending"
    /\ session_state.results = <<EarlierEntry>>
    /\ session_state.results # run.results

----------------------------------------------------------------------------
(* Properties of the History & Audit page (SpecHistory) *)

\* C11: for a filename present in the history, the detail view shows the
\* fields of a record of that filename whose timestamp is the greatest among
\* the records of that filename, in whatever order the store holds them.
C11_HistoryOrdering ==
    pc = "history_rendered" /\ history # <<>> =>
        /\ ~audit.empty
        /\ {audit.filenames[k] : k \in 1..Len(audit.filenames)}
              = {history[i].filename : i \in 1..Len(history)}
        /\ \E i \in 1..Len(history) :
              /\ history[i].filename = audit.selected
              /\ \A j \in 1..Len(history) :
                    history[j].filename = audit.selected
                        => history[j].timestamp <= history[i].timestamp
              /\ audit.detail.timestamp = history[i].timestamp
              /\ audit.detail.ai_category = history[i].ai_category
              /\ audit.detail.final_category = history[i].final_category
              /\ audit.detail.unsafe = history[i].unsafe
              /\ audit.detail.kid_safe = history[i].kid_safe
              /\ audit.detail.confidence = history[i].confidence
              /\ history[i].reviewer_comment # <<>>
                    => audit.detail.reviewer_comment = history[i].reviewer_comment

\* three records of one file stored newest first, oldest last and in between
C11_Witness ==
    /\ pc = "history_rendered"
    /\ Len(history) = 3
    /\ \A i \in 1..3 : history[i].filename = <<"a", ".pdf">>
    /\ history[1].timestamp = 2 /\ history[2].timestamp = 3 /\ history[3].timestamp = 1
    /\ history[2].final_category = <<"Confidential">>
    /\ history[1].final_category = <<"Public">>
    /\ audit.selected = <<"a", ".pdf">>
    /\ audit.detail.timestamp = 3
    /\ audit.detail.final_category = <<"Confidential">>

----------------------------------------------------------------------------
(* Properties of the Save action (SpecReview) *)

\* a step of the Save handler: it stored a record or wrote a message
SaveStep == history' # history \/ notice' # notice

\* C12: a Save leaves the stored results and every file's override and
\* comment as they were, whether save_result succeeds or raises; a successful
\* Save adds exactly one record, for the file saved, with the category and
\* comment of the review, and the file can be saved again; a failed Save adds
\* none.
C12_SaveFrame ==
    [][ SaveStep =>
          /\ session_state'.results = session_state.results
          /\ session_state'.override = session_state.override
          /\ session_state'.comment = session_state.comment
          /\ \E k \in 1..Len(session_state'.results) :
                session_state'.results[k].filename = notice'.filename
          /\ notice'.kind = "success" =>
                /\ Len(history') = Len(history) + 1
                /\ SubSeq(history', 1, Len(history)) = history
                /\ LET r == history'[Len(history')]
                       f == notice'.filename
                       choice == session_state.override[f]
                   IN  /\ r.filename = f
                       /\ \E k \in 1..Len(session_state.results) :
                             /\ session_state.results[k].filename = f
                             /\ r.ai_category = session_state.results[k].ai_result.category
                             /\ r.final_category =
                                   IF choice = <<"No override">>
                                   THEN session_state.results[k].ai_result.category
                                   ELSE choice
                       /\ r.reviewer_comment \in {<<>>, <<"agree">>}
                       /\ (r.reviewer_comment = <<>>) <=> (session_state.comment[f] = <<>>)
          /\ notice'.kind = "error" => history' = history
      ]_vars

\* two reviews of the same file saved one after the other, the second with
\* an override, after a Save of it failed; the card and the input still there
C12_Witness ==
    /\ Len(history) = 2
    /\ history[1].filename = <<"doc", "1", ".pdf">>
    /\ history[2].filename = <<"doc", "1", ".pdf">>
    /\ history[1].final_category = history[1].ai_category
    /\ history[2].final_category = <<"Highly", " ", "Sensitive">>
    /\ history[2].reviewer_comment = <<"agree">>
    /\ notice = [kind |-> "error", filename |-> <<"doc", "1", ".pdf">>]
    /\ Len(session_state.results) = 2
    /\ session_state.results[1].filename = <<"doc", "1", ".pdf">>
    /\ session_state.override[<<"doc", "1", ".pdf">>] = <<"Highly", " ", "Sensitive">>
    /\ session_state.comment[<<"doc", "1", ".pdf">>] = <<" ", "agree", " ">>

----------------------------------------------------------------------------
(* Progress of the batch run (SpecBatch) *)

\* the futures the as_completed loop has gone through
HandledFutures == {i \in 1..run.total : run.future[i].state = "yielded"}

\* C13: during a run the counter equals the number of completed workers the
\* loop has gone through and the progress indicator is that number over
\* total; once all have completed the counter is total and the fraction 1,
\* also when some workers failed.
C13_BatchProgress ==
    run.phase = "running" =>
        /\ run.done = Cardinality(HandledFutures)
        /\ \A p \in run.progress :
              p.num * run.total = Cardinality(HandledFutures) * p.den
        /\ HandledFutures = 1..run.total =>
              /\ run.done = run.total
              /\ \A p \in run.progress : p.num = p.den

----------------------------------------------------------------------------
(* Properties of find_pii (SpecPii) *)

\* C14: find_pii emits at most one address finding per page, however many
\* matches of the address pattern the page has.
C14_OneAddressPerPage ==
    pc = "pii_returned" =>
        \A n \in {doc_info.pages[i].page_num : i \in 1..Len(doc_info.pages)} :
            Len(SelectSeq(result, LAMBDA f : f.type = "address" /\ f.page = n)) <= 1

----------------------------------------------------------------------------
(* The deterministic merge of classify_document on its own (SpecMerge):    *)
(* the category, confidence, unsafe flag and has_ssn that reach line 211   *)
(* are drawn from bounded sets, then the two rules run as lines 215-227.   *)

\* categories a model reply can carry into the merge
MergeCategories ==
    { <<>>, S_Public, S_Confidential, S_HighlySensitive, S_Unsafe,
      S_Public \o S_AndUnsafe, S_Confidential \o S_AndUnsafe,
      S_HighlySensitiveAndUnsafe,
      <<"Unsafe", " ", "and", " ">> \o S_HighlySensitive,
      <<"unsafe">>, <<"Highly">>, <<"Sensitive", " ", "Highly">> }

MergeConfidences == {0, 50, SSN_MIN_CONFIDENCE, CONF_HIGH}

\* lines 215-227 as one function of the values at line 211
UnsafeThenSsn(cc, flag, ssn) ==
    SsnRule([category |-> UnsafeRule(cc.category, flag),
             confidence |-> cc.confidence], ssn)

\* lines 215-219
ApplyUnsafeRule ==
    /\ pc = "merge"
    /\ result' = [result EXCEPT !.category = UnsafeRule(result.category, locals.unsafe_flag)]
    /\ pc' = "unsafe_applied"
    /\ UNCHANGED <<doc_info, llm_calls, primary, validator, locals, llm_raw, bp, pf, run, session_state, history, audit, notice>>

\* lines 222-227
ApplySsnRule ==
    /\ pc = "unsafe_applied"
    /\ result' = SsnRule(result, locals.has_ssn)
    /\ pc' = "ssn_applied"
    /\ UNCHANGED <<doc_info, llm_calls, primary, validator, locals, llm_raw, bp, pf, run, session_state, history, audit, notice>>

InitMerge ==
    /\ pc = "merge"
    /\ locals \in [category : MergeCategories, confidence : MergeConfidences,
                   unsafe_flag : BOOLEAN, has_ssn : BOOLEAN]
    /\ result = [category |-> locals.category, confidence |-> locals.confidence]
    /\ doc_info = None
    /\ llm_calls = None
    /\ primary = None
    /\ validator = None
    /\ llm_raw = None
    /\ bp = None
    /\ pf = None
    /\ run = None
    /\ session_state = None
    /\ history = None
    /\ audit = None
    /\ notice = None

NextMerge == ApplyUnsafeRule \/ ApplySsnRule

SpecMerge == InitMerge /\ [][NextMerge]_vars

----------------------------------------------------------------------------
(* Order of the two merge rules (SpecMerge) *)

\* the two rules in the other order: SSN rule first, unsafe rule second
SsnThenUnsafe(cc, flag, ssn) ==
    LET a == SsnRule(cc, ssn)
    IN  [category |-> UnsafeRule(a.category, flag), confidence |-> a.confidence]

\* C15 as stated: there is a combination of incoming category, unsafe flag
\* and has_ssn for which the SSN rule first and the unsafe rule second gives
\* a different final category than the unsafe rule first and the SSN rule
\* second.  The combinations are all those the merge can start from, so the
\* statement has the same truth value at every step of the merge.
C15_OrderDependent ==
    /\ pc \in {"merge", "unsafe_applied", "ssn_applied"}
    /\ \E c \in MergeCategories, k \in MergeConfidences, flag \in BOOLEAN, ssn \in BOOLEAN :
          LET cc == [category |-> c, confidence |-> k]
          IN  SsnThenUnsafe(cc, flag, ssn).category # UnsafeThenSsn(cc, flag, ssn).category

\* C15 (amended): for every incoming category, unsafe flag and has_ssn, the
\* final category and confidence the merge produces (unsafe rule, then SSN
\* rule) are those the other order would produce; the order decides only
\* which of the two rules attaches " and Unsafe".
C15_OrderIndependent ==
    pc = "ssn_applied" =>
        /\ result = UnsafeThenSsn([category |-> locals.category,
                                   confidence |-> locals.confidence],
                                  locals.unsafe_flag, locals.has_ssn)
        /\ result = SsnThenUnsafe([category |-> locals.category,
                                   confidence |-> locals.confidence],
                                  locals.unsafe_flag, locals.has_ssn)

\* both rules fire; after the first rule the two orders hold different
\* categories, after the second the same one
C15_Witness ==
    /\ pc = "ssn_applied"
    /\ locals.category = <<"Public">>
    /\ locals.confidence = 50
    /\ locals.unsafe_flag
    /\ locals.has_ssn
    /\ UnsafeRule(locals.category, TRUE) = <<"Public", " ", "and", " ", "Unsafe">>
    /\ SsnRule([category |-> locals.category, confidence |-> 50], TRUE).category
          = <<"Highly", " ", "Sensitive">>
    /\ result = [category |-> <<"Highly", " ", "Sensitive", " ", "and", " ", "Unsafe">>,
                 confidence |-> 90]

====
